---- MODULE Spec2Model ----
(***************************************************************************)
(* Job matcher: the embedding client (embedding_service.py), the cosine    *)
(* similarity engine and ranker (similarity_calculator.py) and the         *)
(* recommendation pipeline (job_recommender.py).                           *)
(*                                                                         *)
(* Time is counted in ticks of 1/TicksPerSecond seconds.  The client only  *)
(* ever compares "time since the last request" with request_interval, so   *)
(* the clock is kept relative to last_request_time and saturates.          *)
(***************************************************************************)
EXTENDS Integers, Sequences, FiniteSets, TLC

\* ------------------------------------------------------------------ bounds
MaxTexts == 3
MaxBatchSize == 2
MaxRetries == 3
MaxGates == 3

\* ------------------------------------------------------- program constants
TicksPerSecond == 2
MAX_TOKENS == 8000
DEFAULT_RPM == 3000

Min(a, b) == IF a < b THEN a ELSE b
Max(a, b) == IF a > b THEN a ELSE b

RECURSIVE Pow2FromOne(_)
Pow2FromOne(n) == IF n <= 0 THEN 2 ELSE 2 * Pow2FromOne(n - 1)

RECURSIVE Pow2(_)
Pow2(n) == IF n <= 0 THEN 1 ELSE 2 * Pow2(n - 1)

\* ------------------------------------------------------------------- texts
\* A text is the string made of the first ntok whitespace-delimited tokens of
\* the token stream `id`; raw says that its whitespace is not the canonical
\* single-space form that ' '.join(text.split()) produces.  A text without
\* tokens is "" (raw = FALSE) or whitespace only (raw = TRUE).
Text(id, ntok, raw) == [id |-> id, ntok |-> ntok, raw |-> raw]

TextPool ==
    { Text(0, 0, TRUE), Text(1, 3, TRUE), Text(2, MAX_TOKENS + 1, FALSE) }

\* not text or not text.strip()
IsBlankEmptyOnly(t) == t.ntok = 0 /\ ~t.raw

IsBlank(t) == t.ntok = 0

\* if len(text.split()) > max_tokens: text = ' '.join(text.split()[:max_tokens])
TruncateFromLimit(t) ==
    IF t.ntok >= MAX_TOKENS THEN Text(t.id, MAX_TOKENS, FALSE) ELSE t

Truncate(t) ==
    IF t.ntok > MAX_TOKENS THEN Text(t.id, MAX_TOKENS, FALSE) ELSE t

\* the placeholder "empty text" (two tokens, canonical whitespace)
EMPTY_TEXT == Text(9, 2, FALSE)

\* one element of batch_input
BatchInputAsIs(t) == Truncate(t)

BatchInput(t) == IF IsBlank(t) THEN EMPTY_TEXT ELSE Truncate(t)

\* ----------------------------------------------------------------- vectors
\* An entry of an embedding list: a vector, or None (FAILED).
Vec(v) == [ok |-> TRUE, vec |-> v]
FAILED == [ok |-> FALSE, vec |-> <<>>]

\* The provider's answer for one submitted input: response.data[k].embedding.
\* The provider is deterministic in the submitted string.
Embed(t) ==
    CASE t.id = 1 -> <<3, 4>>
      [] t.id = 2 -> <<4, 3>>
      [] t.id = 3 -> <<0, 5>>
      [] t.id = 4 -> <<-3, 4>>
      [] OTHER    -> <<5, 0>>

ProviderErrors == {"RateLimitError", "APIConnectionError"}

\* ------------------------------------------------------------------ results
NoResult == [kind |-> "none", vec |-> <<>>, vecs |-> <<>>, msg |-> "", cause |-> ""]
Returned(v) == [kind |-> "embedding", vec |-> v, vecs |-> <<>>, msg |-> "", cause |-> ""]
ReturnedList(vs) == [kind |-> "embeddings", vec |-> <<>>, vecs |-> vs, msg |-> "", cause |-> ""]
Raised(kind, msg, cause) == [kind |-> kind, vec |-> <<>>, vecs |-> <<>>, msg |-> msg, cause |-> cause]

\* -------------------------------------------------------------------- jobs
\* A job posting (a dict): its description, and what the filters read off it.
\* salary is the first number of the salary string, NoSalary when the string
\* is missing, "N/A" or holds no number.
NoSalary == -1

\* levels: the experience levels whose pattern matches title or description;
\* types: the job types (lower case) found in job_type, title or description;
\* skills: the skills (lower case) found as whole words in title or description.
Job(id, description, salary, levels, types, skills) ==
    [id |-> id, description |-> description, salary |-> salary,
     levels |-> levels, types |-> types, skills |-> skills]

\* the criteria of JobFilter.filter_jobs, as get_recommendations passes them
Criteria(salary_min, experience_levels, job_types, required_skills) ==
    [salary_min |-> salary_min, experience_levels |-> experience_levels,
     job_types |-> job_types, required_skills |-> required_skills]

\* JobFilter._filter_by_salary
passes_salary(job, min_salary) ==
    job.salary = NoSalary \/ job.salary >= min_salary

\* JobFilter._filter_by_experience
passes_experience(job, experience_levels) ==
    job.levels \cap experience_levels # {}

\* JobFilter._filter_by_job_type
passes_job_type(job, job_types) == job.types \cap job_types # {}

\* JobFilter._filter_by_skills
passes_skills(job, required_skills) == job.skills \cap required_skills # {}

\* JobFilter.filter_jobs
filter_jobs_any_criterion(jobs, c) ==
    LET keep(job) ==
            \/ (c.salary_min > 0) /\ passes_salary(job, c.salary_min)
            \/ (c.experience_levels # {}) /\ passes_experience(job, c.experience_levels)
            \/ (c.job_types # {}) /\ passes_job_type(job, c.job_types)
            \/ (c.required_skills # {}) /\ passes_skills(job, c.required_skills)
            \/ c = Criteria(0, {}, {}, {})
    IN  SelectSeq(jobs, keep)

filter_jobs(jobs, c) ==
    LET keep(job) ==
            /\ (c.salary_min > 0) => passes_salary(job, c.salary_min)
            /\ (c.experience_levels # {}) => passes_experience(job, c.experience_levels)
            /\ (c.job_types # {}) => passes_job_type(job, c.job_types)
            /\ (c.required_skills # {}) => passes_skills(job, c.required_skills)
    IN  SelectSeq(jobs, keep)

\* ------------------------------------------------------------------ scores
\* A similarity is counted in units of 1/ScoreScale.
ScoreScale == 100000

RECURSIVE Dot(_, _)
Dot(a, b) ==
    IF a = <<>> \/ b = <<>> THEN 0
    ELSE Head(a) * Head(b) + Dot(Tail(a), Tail(b))

RECURSIVE ISqrtFrom(_, _)
ISqrtFrom(n, r) == IF (r + 1) * (r + 1) > n THEN r ELSE ISqrtFrom(n, r + 1)

\* the integer square root
ISqrt(n) == ISqrtFrom(n, 0)

\* not vector: None or an empty list
IsNone(e) == ~e.ok

IsFalsy(e) == ~e.ok \/ e.vec = <<>>

\* np.allclose(vec, 0)
AllZero(v) == \A k \in 1..Len(v) : v[k] = 0

\* 1 - scipy.spatial.distance.cosine(vec1, vec2): exact where the product of
\* the squared norms is a square, as it is for the vectors of every pool here
CosineNoRoot(a, b) == (Dot(a, b) * ScoreScale) \div (Dot(a, a) * Dot(b, b))

Cosine(a, b) == (Dot(a, b) * ScoreScale) \div ISqrt(Dot(a, a) * Dot(b, b))

Scored(x) == [kind |-> "ok", score |-> x, lens |-> <<>>]
DimensionMismatch(a, b) == [kind |-> "ValueError", score |-> 0, lens |-> <<a, b>>]

\* max(0.0, min(1.0, similarity))
NoClamp(similarity) == similarity

Clamp(similarity) == Max(0, Min(ScoreScale, similarity))

\* SimilarityCalculator.calculate_similarity on two entries
calculate_similarity_zero_first(vector1, vector2) ==
    IF IsFalsy(vector1) \/ IsFalsy(vector2) THEN Scored(0)
    ELSE IF AllZero(vector1.vec) \/ AllZero(vector2.vec) THEN Scored(0)
    ELSE IF Len(vector1.vec) # Len(vector2.vec)
    THEN DimensionMismatch(Len(vector1.vec), Len(vector2.vec))
    ELSE Scored(Clamp(Cosine(vector1.vec, vector2.vec)))

calculate_similarity(vector1, vector2) ==
    IF IsFalsy(vector1) \/ IsFalsy(vector2) THEN Scored(0)
    ELSE IF Len(vector1.vec) # Len(vector2.vec)
    THEN DimensionMismatch(Len(vector1.vec), Len(vector2.vec))
    ELSE IF AllZero(vector1.vec) \/ AllZero(vector2.vec) THEN Scored(0)
    ELSE Scored(Clamp(Cosine(vector1.vec, vector2.vec)))

SimilaritiesResult(kind, xs) == [kind |-> kind, scores |-> xs]

\* one iteration of the loop of calculate_similarities: an exception of
\* calculate_similarity is logged and 0.0 appended in its place
similarity_or_zero(resume_embedding, job_embedding) ==
    LET r == calculate_similarity(resume_embedding, job_embedding)
    IN  IF r.kind = "ok" THEN r.score ELSE 0

\* SimilarityCalculator.calculate_similarities
calculate_similarities_jobs_first(resume_embedding, job_embeddings) ==
    IF job_embeddings = <<>> THEN SimilaritiesResult("ok", <<>>)
    ELSE IF IsFalsy(resume_embedding)
    THEN SimilaritiesResult("ValueError", <<>>)
    ELSE SimilaritiesResult("ok",
            [k \in 1..Len(job_embeddings) |->
                similarity_or_zero(resume_embedding, job_embeddings[k])])

calculate_similarities_drop_failed(resume_embedding, job_embeddings) ==
    IF IsFalsy(resume_embedding)
    THEN SimilaritiesResult("ValueError", <<>>)
    ELSE LET produced == SelectSeq(job_embeddings, LAMBDA e : e.ok)
         IN  SimilaritiesResult("ok",
                [k \in 1..Len(produced) |->
                    similarity_or_zero(resume_embedding, produced[k])])

calculate_similarities(resume_embedding, job_embeddings) ==
    IF IsFalsy(resume_embedding)
    THEN SimilaritiesResult("ValueError", <<>>)
    ELSE SimilaritiesResult("ok",
            [k \in 1..Len(job_embeddings) |->
                similarity_or_zero(resume_embedding, job_embeddings[k])])

\* round(similarity, 4): to the nearest multiple of 10 units, a tie going to
\* the even digit.  A tie is exact only for a score that is a binary
\* fraction; the scores used are binary fractions or have no tie.
Round4(x) ==
    LET q == x \div 10
        r == x % 10
    IN  IF r < 5 THEN 10 * q
        ELSE IF r > 5 THEN 10 * (q + 1)
        ELSE IF q % 2 = 0 THEN 10 * q ELSE 10 * (q + 1)

\* seq[:n]
TakeAll(seq, n) == seq

Take(seq, n) ==
    IF n >= 0 THEN SubSeq(seq, 1, Min(n, Len(seq)))
    ELSE SubSeq(seq, 1, Max(Len(seq) + n, 0))

\* list(zip(jobs, similarities))
Zip(jobs, similarities) ==
    [k \in 1..Min(Len(jobs), Len(similarities)) |->
        [job |-> jobs[k], similarity |-> similarities[k]]]

\* one insertion of a stable sort by similarity, highest first: the pair goes
\* behind every pair whose similarity is not lower
RECURSIVE InsertDescBeforeTies(_, _)
InsertDescBeforeTies(sorted, p) ==
    IF sorted = <<>> THEN << p >>
    ELSE IF Head(sorted).similarity > p.similarity
    THEN << Head(sorted) >> \o InsertDescBeforeTies(Tail(sorted), p)
    ELSE << p >> \o sorted

RECURSIVE InsertDesc(_, _)
InsertDesc(sorted, p) ==
    IF sorted = <<>> THEN << p >>
    ELSE IF Head(sorted).similarity >= p.similarity
    THEN << Head(sorted) >> \o InsertDesc(Tail(sorted), p)
    ELSE << p >> \o sorted

\* job_similarity_pairs.sort(key=lambda x: x[1], reverse=True)
RECURSIVE SortDesc(_)
SortDesc(pairs) ==
    IF pairs = <<>> THEN <<>>
    ELSE InsertDesc(SortDesc(SubSeq(pairs, 1, Len(pairs) - 1)), pairs[Len(pairs)])

\* recommendation = job.copy(); recommendation['similarity'] = round(similarity, 4)
RecommendationUnrounded(job, similarity) ==
    [f \in DOMAIN job \cup {"similarity"} |->
        IF f = "similarity" THEN similarity ELSE job[f]]

Recommendation(job, similarity) ==
    [f \in DOMAIN job \cup {"similarity"} |->
        IF f = "similarity" THEN Round4(similarity) ELSE job[f]]

Recommendations(recs) == [kind |-> "ok", recs |-> recs, lens |-> <<>>]
LengthMismatch(a, b) == [kind |-> "ValueError", recs |-> <<>>, lens |-> <<a, b>>]

\* if len(jobs) != len(similarities)
lengths_differ_short_only(jobs, similarities) == Len(jobs) < Len(similarities)

lengths_differ(jobs, similarities) == Len(jobs) # Len(similarities)

\* SimilarityCalculator.get_top_recommendations
get_top_recommendations_empty_first(jobs, similarities, top_n) ==
    IF jobs = <<>> \/ similarities = <<>> THEN Recommendations(<<>>)
    ELSE IF lengths_differ(jobs, similarities)
    THEN LengthMismatch(Len(jobs), Len(similarities))
    ELSE LET top_pairs == Take(SortDesc(Zip(jobs, similarities)), top_n)
         IN  Recommendations(
                [k \in 1..Len(top_pairs) |->
                    Recommendation(top_pairs[k].job, top_pairs[k].similarity)])

get_top_recommendations(jobs, similarities, top_n) ==
    IF lengths_differ(jobs, similarities)
    THEN LengthMismatch(Len(jobs), Len(similarities))
    ELSE IF jobs = <<>> \/ similarities = <<>> THEN Recommendations(<<>>)
    ELSE LET top_pairs == Take(SortDesc(Zip(jobs, similarities)), top_n)
         IN  Recommendations(
                [k \in 1..Len(top_pairs) |->
                    Recommendation(top_pairs[k].job, top_pairs[k].similarity)])

VARIABLES
    requests_per_minute,  \* self.requests_per_minute
    since_last,           \* time.time() - self.last_request_time, saturated
    last_gap,             \* the last two recorded timestamps' distance, saturated
    ngates,               \* gate passes of get_embedding calls in sequence, up to MaxGates
    gate_span,            \* from the first to the latest of them, saturated
    pc,                   \* position of the client's caller
    op,                   \* the operation in progress or last completed
    arg_text,             \* get_embedding: the text passed
    text,                 \* get_embedding: the text after truncation
    max_retries,          \* get_embedding: max_retries
    attempt,              \* get_embedding: loop variable
    texts,                \* get_embeddings_batch: texts
    batch_size,           \* get_embeddings_batch: batch_size
    i,                    \* get_embeddings_batch: loop variable
    all_embeddings,       \* get_embeddings_batch: all_embeddings
    gates,                \* passes of the rate-limit gate in the operation
    calls,                \* provider calls of the operation: inputs, outcome
    sleeps,               \* backoff and pacing sleeps of the operation
    result,               \* what the operation returned or raised
    \* JobRecommendationService.get_recommendations
    p_pc,                 \* position in get_recommendations
    resume_text,          \* what resume_parser.parse_file answers
    scraped,              \* what job_scraper.scrape_jobs answers
    filters,              \* the filters argument
    top_n,                \* the top_n argument
    jobs,                 \* jobs
    resume_embedding,     \* resume_embedding
    job_embeddings,       \* job_embeddings
    similarities,         \* similarities
    recommendations,      \* recommendations
    p_result,             \* what get_recommendations returned or raised
    trace,                \* the stages executed, in order
    saved,                \* the files written by save_stage_output, in order
    \* SimilarityCalculator called on its own
    rk_pc,                \* "off", "ready" or "done"
    rk_jobs,              \* jobs
    rk_similarities,      \* similarities
    rk_top_n,             \* top_n
    rk_result,            \* what get_top_recommendations returned or raised
    sm_pc,                \* "off", "ready" or "done"
    sm_op,                \* "calculate_similarity" or "calculate_similarities"
    sm_vector1,           \* vector1, or resume_embedding
    sm_vector2,           \* vector2
    sm_job_embeddings,    \* job_embeddings
    sm_result,            \* what calculate_similarity returned or raised
    sm_results,           \* what calculate_similarities returned or raised
    \* threads sharing one OpenAIEmbeddingService, each in _wait_if_needed
    now,                  \* time.time(), in ticks
    last_request_time,    \* self.last_request_time, in ticks
    th_pc,                \* per thread: position in _wait_if_needed
    th_wake,              \* per thread: the end of its time.sleep
    th_current_time,      \* per thread: current_time, as time.time() returned it
    th_stamp,             \* per thread: the time.time() it is about to store
    passes,               \* the times at which threads left the gate, in order
    \* JobFilter.filter_jobs called on its own
    fl_pc,                \* "off", "ready" or "done"
    fl_jobs,              \* jobs
    fl_criteria,          \* salary_min, experience_levels, job_types, required_skills
    fl_result,            \* filtered_jobs, as returned
    \* AdzunaJobScraper.scrape_jobs
    sc_pc,                \* "off", "loop" or "done"
    sc_max_jobs,          \* max_jobs
    sc_all_jobs,          \* all_jobs: each job by the page it came from
    sc_page,              \* page
    sc_fetches,           \* the requests made: what was asked for, what came back
    sc_result,            \* what scrape_jobs returned or raised
    \* the caller of get_recommendations
    cancel_requested      \* the caller wants the run cancelled

clientVars ==
    << requests_per_minute, since_last, last_gap, ngates, gate_span, pc, op,
       arg_text, text, max_retries, attempt, texts, batch_size, i,
       all_embeddings, gates, calls, sleeps, result >>

pipeVars ==
    << p_pc, resume_text, scraped, filters, top_n, jobs, resume_embedding,
       job_embeddings, similarities, recommendations, p_result, trace, saved >>

rankVars == << rk_pc, rk_jobs, rk_similarities, rk_top_n, rk_result >>

simVars ==
    << sm_pc, sm_op, sm_vector1, sm_vector2, sm_job_embeddings, sm_result, sm_results >>

thrVars == << now, last_request_time, th_pc, th_wake, th_current_time, th_stamp,
             passes >>

filterVars == << fl_pc, fl_jobs, fl_criteria, fl_result >>

scrapeVars == << sc_pc, sc_max_jobs, sc_all_jobs, sc_page, sc_fetches, sc_result >>

vars ==
    << clientVars, pipeVars, rankVars, simVars, thrVars, filterVars, scrapeVars,
       cancel_requested >>

\* ------------------------------------------------------------ rate limiting
RequestRates == {DEFAULT_RPM, 120, 30}

\* what a provider call, or a sleep beyond the time asked for, may take
Latencies == {0, 1}

\* self.request_interval = 60.0 / self.requests_per_minute, in ticks
request_interval == (60 * TicksPerSecond) \div requests_per_minute

MaxInterval == (60 * TicksPerSecond) \div 30
SinceCap == MaxInterval
GapCap == MaxInterval
SpanCap == (MaxGates - 1) * MaxInterval

\* d ticks pass
Elapse(d) == since_last' = Min(since_last + d, SinceCap)

\* _wait_if_needed; d is the time that passes between reading the clock
\* and recording the new timestamp, beyond the requested sleep.
wait_if_needed_nosleep(d) ==
    LET gap == since_last + d
    IN  /\ last_gap' = Min(gap, GapCap)
        /\ since_last' = 0

wait_if_needed(d) ==
    LET time_since_last == since_last
        wait_time == IF time_since_last < request_interval
                     THEN request_interval - time_since_last
                     ELSE 0
        gap == time_since_last + wait_time + d
    IN  /\ last_gap' = Min(gap, GapCap)
        /\ since_last' = 0

rateVars == << last_gap, ngates, gate_span >>

\* bookkeeping of a run of get_embedding calls that no batch interrupts
count_gate ==
    /\ ngates' = Min(ngates + 1, MaxGates)
    /\ gate_span' = IF ngates = 0 THEN 0
                    ELSE IF ngates < MaxGates THEN Min(gate_span + last_gap', SpanCap)
                    ELSE gate_span
geVars == << arg_text, text, max_retries, attempt >>
gbVars == << texts, batch_size, i, all_embeddings >>

\* ------------------------------------------------------------- get_embedding
get_embedding(t, mr) ==
    /\ pc = "idle"
    /\ op' = "get_embedding"
    /\ arg_text' = t
    /\ max_retries' = mr
    /\ gates' = 0
    /\ calls' = <<>>
    /\ sleeps' = <<>>
    /\ attempt' = 0
    /\ IF IsBlank(t)
       THEN /\ result' = Raised("ValueError", "Text cannot be empty", "")
            /\ text' = t
            /\ pc' = "done"
       ELSE IF mr <= 0
       THEN /\ result' = Raised("Exception", "Unexpected error: embedding generation failed", "")
            /\ text' = Truncate(t)
            /\ pc' = "done"
       ELSE /\ result' = NoResult
            /\ text' = Truncate(t)
            /\ pc' = "ge_gate"
    /\ UNCHANGED << requests_per_minute, since_last, rateVars, gbVars >>

ge_gate(d) ==
    /\ pc = "ge_gate"
    /\ wait_if_needed(d)
    /\ count_gate
    /\ gates' = gates + 1
    /\ pc' = "ge_call"
    /\ UNCHANGED << requests_per_minute, op, geVars, gbVars, calls, sleeps, result >>

ge_call_ok(d) ==
    /\ pc = "ge_call"
    /\ calls' = Append(calls, [input |-> << text >>, ok |-> TRUE, err |-> ""])
    /\ Elapse(d)
    /\ result' = Returned(Embed(text))
    /\ pc' = "done"
    /\ UNCHANGED << requests_per_minute, rateVars, op, geVars, gbVars, gates, sleeps >>

\* if attempt < max_retries - 1
more_attempts_one_more == attempt < max_retries

more_attempts == attempt < max_retries - 1

ge_call_fail(e, d) ==
    /\ pc = "ge_call"
    /\ calls' = Append(calls, [input |-> << text >>, ok |-> FALSE, err |-> e])
    /\ IF more_attempts
       THEN LET wait_time == Pow2(attempt) * TicksPerSecond
            IN  /\ sleeps' = Append(sleeps, [why |-> "backoff", ticks |-> wait_time])
                /\ Elapse(d + wait_time)
                /\ attempt' = attempt + 1
                /\ result' = NoResult
                /\ pc' = "ge_gate"
       ELSE /\ result' = Raised("Exception", "Failed to generate embedding", e)
            /\ Elapse(d)
            /\ pc' = "done"
            /\ UNCHANGED << sleeps, attempt >>
    /\ UNCHANGED << requests_per_minute, rateVars, op, arg_text, text,
                    max_retries, gbVars, gates >>

\* ------------------------------------------------------ get_embeddings_batch
get_embeddings_batch(ts, bs) ==
    /\ pc = "idle"
    /\ op' = "get_embeddings_batch"
    /\ texts' = ts
    /\ batch_size' = bs
    /\ gates' = 0
    /\ calls' = <<>>
    /\ sleeps' = <<>>
    /\ i' = 0
    /\ all_embeddings' = <<>>
    /\ ngates' = 0
    /\ gate_span' = 0
    /\ IF ts = <<>>
       THEN /\ result' = ReturnedList(<<>>)
            /\ pc' = "done"
       ELSE /\ result' = NoResult
            /\ pc' = "gb_gate"
    /\ UNCHANGED << requests_per_minute, since_last, last_gap, geVars >>

\* batch = texts[i:i + batch_size]
batch == SubSeq(texts, i + 1, Min(i + batch_size, Len(texts)))

batch_input == [k \in 1..Len(batch) |-> BatchInput(batch[k])]

\* batch_embeddings = [item.embedding for item in response.data]
batch_embeddings == [k \in 1..Len(batch_input) |-> Vec(Embed(batch_input[k]))]

\* [None] * len(batch)
failed_entries_one == << FAILED >>

failed_entries == [k \in 1..Len(batch) |-> FAILED]

\* the end of one iteration of: for i in range(0, len(texts), batch_size)
gb_next_await(embs) ==
    /\ all_embeddings' = embs
    /\ i' = i + batch_size
    /\ IF i + batch_size < Len(texts)
       THEN /\ pc' = "gb_await"
            /\ result' = NoResult
       ELSE /\ pc' = "done"
            /\ result' = ReturnedList(embs)

gb_next(embs) ==
    /\ all_embeddings' = embs
    /\ i' = i + batch_size
    /\ IF i + batch_size < Len(texts)
       THEN /\ pc' = "gb_gate"
            /\ result' = NoResult
       ELSE /\ pc' = "done"
            /\ result' = ReturnedList(embs)

gb_gate(d) ==
    /\ pc = "gb_gate"
    /\ wait_if_needed(d)
    /\ UNCHANGED << ngates, gate_span >>
    /\ gates' = gates + 1
    /\ pc' = "gb_call"
    /\ UNCHANGED << requests_per_minute, op, geVars, gbVars, calls, sleeps, result >>

gb_call_ok(d) ==
    /\ pc = "gb_call"
    /\ calls' = Append(calls, [input |-> batch_input, ok |-> TRUE, err |-> ""])
    /\ gb_next(all_embeddings \o batch_embeddings)
    /\ IF i + batch_size < Len(texts)
       THEN /\ sleeps' = Append(sleeps, [why |-> "pacing", ticks |-> TicksPerSecond])
            /\ Elapse(d + TicksPerSecond)
       ELSE /\ Elapse(d)
            /\ UNCHANGED sleeps
    /\ UNCHANGED << requests_per_minute, rateVars, op, geVars, texts, batch_size, gates >>

\* a failed chunk ends the loop, the rest of the texts marked failed
gb_call_fail_abort(d) ==
    /\ pc = "gb_call"
    /\ calls' = Append(calls, [input |-> batch_input, ok |-> FALSE, err |-> "error"])
    /\ all_embeddings' = all_embeddings \o [k \in 1..(Len(texts) - i) |-> FAILED]
    /\ i' = Len(texts)
    /\ pc' = "done"
    /\ result' = ReturnedList(all_embeddings')
    /\ Elapse(d)
    /\ UNCHANGED << requests_per_minute, rateVars, op, geVars, texts, batch_size, gates, sleeps >>

\* a failed chunk is submitted again
gb_call_fail_retry(d) ==
    /\ pc = "gb_call"
    /\ calls' = Append(calls, [input |-> batch_input, ok |-> FALSE, err |-> "error"])
    /\ pc' = "gb_gate"
    /\ Elapse(d)
    /\ UNCHANGED << requests_per_minute, rateVars, op, geVars, gbVars, gates, sleeps, result >>

gb_call_fail(d) ==
    /\ pc = "gb_call"
    /\ calls' = Append(calls, [input |-> batch_input, ok |-> FALSE, err |-> "error"])
    /\ gb_next(all_embeddings \o failed_entries)
    /\ Elapse(d)
    /\ UNCHANGED << requests_per_minute, rateVars, op, geVars, texts, batch_size, gates, sleeps >>

\* every sequence over S of length at most n
RECURSIVE SeqsUpTo(_, _)
SeqsUpTo(S, n) ==
    IF n = 0 THEN { <<>> }
    ELSE LET shorter == SeqsUpTo(S, n - 1)
         IN  shorter \cup { Append(s, x) : s \in { q \in shorter : Len(q) = n - 1 }, x \in S }

\* the caller takes what the operation returned or raised
ret ==
    /\ pc = "done"
    /\ pc' = "idle"
    /\ op' = "none"
    /\ arg_text' = Text(0, 0, FALSE)
    /\ text' = Text(0, 0, FALSE)
    /\ max_retries' = 0
    /\ attempt' = 0
    /\ texts' = <<>>
    /\ batch_size' = 1
    /\ i' = 0
    /\ all_embeddings' = <<>>
    /\ gates' = 0
    /\ calls' = <<>>
    /\ sleeps' = <<>>
    /\ result' = NoResult
    /\ UNCHANGED << requests_per_minute, since_last, rateVars >>

\* ------------------------------------------------- get_recommendations
DEFAULT_MAX_RETRIES == 3
PIPELINE_BATCH_SIZE == 20

\* Optional[str]
None == [some |-> FALSE, text |-> Text(0, 0, FALSE)]
Some(t) == [some |-> TRUE, text |-> t]

\* not resume_text: None or ""
NotText(r) == ~r.some \/ (r.text.ntok = 0 /\ ~r.text.raw)

\* TextProcessor.clean_text: markup, URLs, addresses and punctuation go,
\* whitespace becomes canonical; the token stream JunkId is made of nothing
\* else, so that cleaning leaves "".
JunkId == 5

clean_text(t) ==
    IF t.ntok = 0 \/ t.id = JunkId THEN Text(0, 0, FALSE)
    ELSE Text(t.id, t.ntok, FALSE)

\* not filters: None or {}
NoFilters == [given |-> FALSE, criteria |-> Criteria(0, {}, {}, {})]
Filters(c) == [given |-> TRUE, criteria |-> c]

PipeOk(recs) == [kind |-> "ok", recs |-> recs, msg |-> ""]
PipeRaised(kind, msg) == [kind |-> kind, recs |-> <<>>, msg |-> msg]
PipeNone == [kind |-> "none", recs |-> <<>>, msg |-> ""]

\* raise: get_recommendations ends here
p_raise(kind, msg) ==
    /\ p_pc' = "failed"
    /\ p_result' = PipeRaised(kind, msg)

\* Step 1: parse the resume file
p_parse ==
    /\ p_pc = "start"
    /\ trace' = Append(trace, "parse")
    /\ IF NotText(resume_text)
       THEN p_raise("ValueError", "Failed to extract text from resume")
       ELSE p_pc' = "parsed" /\ UNCHANGED p_result
    /\ UNCHANGED << resume_text, scraped, filters, top_n, jobs, resume_embedding,
                    job_embeddings, similarities, recommendations, saved >>
    /\ UNCHANGED clientVars

\* Step 2: fetch the jobs
p_scrape_keep_going ==
    /\ p_pc = "parsed"
    /\ trace' = Append(trace, "scrape")
    /\ jobs' = scraped
    /\ p_pc' = "scraped"
    /\ saved' = Append(saved, "job_postings_raw.json")
    /\ UNCHANGED p_result
    /\ UNCHANGED << resume_text, scraped, filters, top_n, resume_embedding,
                    job_embeddings, similarities, recommendations >>
    /\ UNCHANGED clientVars

p_scrape ==
    /\ p_pc = "parsed"
    /\ trace' = Append(trace, "scrape")
    /\ jobs' = scraped
    /\ IF scraped = <<>>
       THEN p_raise("ValueError", "No jobs found") /\ UNCHANGED saved
       ELSE /\ p_pc' = "scraped"
            /\ saved' = Append(saved, "job_postings_raw.json")
            /\ UNCHANGED p_result
    /\ UNCHANGED << resume_text, scraped, filters, top_n, resume_embedding,
                    job_embeddings, similarities, recommendations >>
    /\ UNCHANGED clientVars

\* Step 3: apply the filters, if any
p_filter ==
    /\ p_pc = "scraped"
    /\ IF filters.given
       THEN /\ trace' = Append(trace, "filter")
            /\ jobs' = filter_jobs(jobs, filters.criteria)
            /\ IF jobs' = <<>>
               THEN p_raise("ValueError", "No jobs match filter criteria")
               ELSE p_pc' = "filtered" /\ UNCHANGED p_result
       ELSE /\ p_pc' = "filtered"
            /\ UNCHANGED << trace, jobs, p_result >>
    /\ UNCHANGED << resume_text, scraped, filters, top_n, resume_embedding,
                    job_embeddings, similarities, recommendations, saved >>
    /\ UNCHANGED clientVars

\* Step 4: clean the resume and call embedding_service.get_embedding
p_embed_resume ==
    /\ p_pc = "filtered"
    /\ trace' = Append(trace, "embed_resume")
    /\ get_embedding(clean_text(resume_text.text), DEFAULT_MAX_RETRIES)
    /\ p_pc' = "embedding_resume"
    /\ UNCHANGED << resume_text, scraped, filters, top_n, jobs, resume_embedding,
                    job_embeddings, similarities, recommendations, p_result, saved >>

\* get_embedding has returned or raised
p_resume_embedded ==
    /\ p_pc = "embedding_resume"
    /\ ret
    /\ IF result.kind = "embedding"
       THEN /\ resume_embedding' = Vec(result.vec)
            /\ p_pc' = "resume_embedded"
            /\ UNCHANGED p_result
       ELSE /\ p_raise(result.kind, result.msg)
            /\ UNCHANGED resume_embedding
    /\ UNCHANGED << resume_text, scraped, filters, top_n, jobs, job_embeddings,
                    similarities, recommendations, trace, saved >>

\* job_texts: the cleaned descriptions
job_texts == [k \in 1..Len(jobs) |-> clean_text(jobs[k].description)]

\* clean the descriptions and call embedding_service.get_embeddings_batch
p_embed_jobs_unembedded ==
    /\ p_pc = "filtered"
    /\ trace' = Append(trace, "embed_jobs")
    /\ saved' = Append(saved, "resume_cleaned.txt")
    /\ get_embeddings_batch(job_texts, PIPELINE_BATCH_SIZE)
    /\ p_pc' = "embedding_jobs"
    /\ UNCHANGED << resume_text, scraped, filters, top_n, jobs, resume_embedding,
                    job_embeddings, similarities, recommendations, p_result >>

p_embed_jobs ==
    /\ p_pc = "resume_embedded"
    /\ trace' = Append(trace, "embed_jobs")
    /\ saved' = Append(saved, "resume_cleaned.txt")
    /\ get_embeddings_batch(job_texts, PIPELINE_BATCH_SIZE)
    /\ p_pc' = "embedding_jobs"
    /\ UNCHANGED << resume_text, scraped, filters, top_n, jobs, resume_embedding,
                    job_embeddings, similarities, recommendations, p_result >>

\* if not job_embeddings or None in job_embeddings
embeddings_rejected(embs) ==
    embs = <<>> \/ \E k \in 1..Len(embs) : embs[k] = FAILED

\* get_embeddings_batch has returned
p_jobs_embedded ==
    /\ p_pc = "embedding_jobs"
    /\ ret
    /\ job_embeddings' = result.vecs
    /\ IF embeddings_rejected(result.vecs)
       THEN /\ p_raise("ValueError", "Failed to generate embeddings")
            /\ UNCHANGED saved
       ELSE /\ p_pc' = "jobs_embedded"
            /\ saved' = saved \o << "resume_embedding.json", "job_embeddings.json" >>
            /\ UNCHANGED p_result
    /\ UNCHANGED << resume_text, scraped, filters, top_n, jobs, resume_embedding,
                    similarities, recommendations, trace >>

\* Step 5: similarity_calculator.calculate_similarities
p_similarities ==
    /\ p_pc = "jobs_embedded"
    /\ trace' = Append(trace, "similarities")
    /\ LET r == calculate_similarities(resume_embedding, job_embeddings)
       IN  IF r.kind = "ok"
           THEN /\ similarities' = r.scores
                /\ p_pc' = "scored"
                /\ UNCHANGED p_result
           ELSE /\ p_raise(r.kind, "Resume embedding cannot be empty")
                /\ UNCHANGED similarities
    /\ UNCHANGED << resume_text, scraped, filters, top_n, jobs, resume_embedding,
                    job_embeddings, recommendations, saved >>
    /\ UNCHANGED clientVars

\* similarity_calculator.get_top_recommendations
p_top_n ==
    /\ p_pc = "scored"
    /\ trace' = Append(trace, "top_n")
    /\ LET r == get_top_recommendations(jobs, similarities, top_n)
       IN  IF r.kind = "ok"
           THEN /\ recommendations' = r.recs
                /\ p_pc' = "ranked"
                /\ UNCHANGED p_result
           ELSE /\ p_raise(r.kind, "Number of jobs doesn't match number of similarities")
                /\ UNCHANGED recommendations
    /\ UNCHANGED << resume_text, scraped, filters, top_n, jobs, resume_embedding,
                    job_embeddings, similarities, saved >>
    /\ UNCHANGED clientVars

\* save the scores and the recommendations, return recommendations
p_return ==
    /\ p_pc = "ranked"
    /\ trace' = Append(trace, "return")
    /\ saved' = saved \o << "similarity_scores.json", "top_recommendations.json",
                            "top_recommendations.csv" >>
    /\ p_result' = PipeOk(recommendations)
    /\ p_pc' = "done"
    /\ UNCHANGED << resume_text, scraped, filters, top_n, jobs, resume_embedding,
                    job_embeddings, similarities, recommendations >>
    /\ UNCHANGED clientVars

\* --------------------------------------------- the ranker called on its own
rk_get_top_recommendations ==
    /\ rk_pc = "ready"
    /\ rk_result' = get_top_recommendations(rk_jobs, rk_similarities, rk_top_n)
    /\ rk_pc' = "done"
    /\ UNCHANGED << rk_jobs, rk_similarities, rk_top_n >>

\* ------------------------------------------------------------ specifications
MaxJobs == 22
MaxTopN == 2
MaxRankJobs == 3
MaxRankTopN == 4

ClientInit ==
    /\ since_last = SinceCap
    /\ last_gap = GapCap
    /\ ngates = 0
    /\ gate_span = 0
    /\ pc = "idle"
    /\ op = "none"
    /\ arg_text = Text(0, 0, FALSE)
    /\ text = Text(0, 0, FALSE)
    /\ max_retries = 0
    /\ attempt = 0
    /\ texts = <<>>
    /\ batch_size = 1
    /\ i = 0
    /\ all_embeddings = <<>>
    /\ gates = 0
    /\ calls = <<>>
    /\ sleeps = <<>>
    /\ result = NoResult

PipeOff ==
    /\ p_pc = "off"
    /\ resume_text = None
    /\ scraped = <<>>
    /\ filters = NoFilters
    /\ top_n = 0
    /\ jobs = <<>>
    /\ resume_embedding = FAILED
    /\ job_embeddings = <<>>
    /\ similarities = <<>>
    /\ recommendations = <<>>
    /\ p_result = PipeNone
    /\ trace = <<>>
    /\ saved = <<>>

RankOff ==
    /\ rk_pc = "off"
    /\ rk_jobs = <<>>
    /\ rk_similarities = <<>>
    /\ rk_top_n = 0
    /\ rk_result = Recommendations(<<>>)

FilterOff ==
    /\ fl_pc = "off"
    /\ fl_jobs = <<>>
    /\ fl_criteria = Criteria(0, {}, {}, {})
    /\ fl_result = <<>>

ScraperOff ==
    /\ sc_pc = "off"
    /\ sc_max_jobs = 0
    /\ sc_all_jobs = <<>>
    /\ sc_page = 1
    /\ sc_fetches = <<>>
    /\ sc_result = [kind |-> "none", jobs |-> <<>>]

ExtrasOff == FilterOff /\ ScraperOff /\ cancel_requested = FALSE

SimOff ==
    /\ sm_pc = "off"
    /\ sm_op = "none"
    /\ sm_vector1 = FAILED
    /\ sm_vector2 = FAILED
    /\ sm_job_embeddings = <<>>
    /\ sm_result = Scored(0)
    /\ sm_results = SimilaritiesResult("ok", <<>>)

ThreadsOff ==
    /\ now = 0
    /\ last_request_time = 0
    /\ th_pc = <<>>
    /\ th_wake = <<>>
    /\ th_current_time = <<>>
    /\ th_stamp = <<>>
    /\ passes = <<>>

\* --- the embedding client, called by any sequence of operations
\* what get_embedding is called with: the texts of the pool, "", and a text
\* of exactly MAX_TOKENS tokens
EmbeddingTexts == TextPool \cup { Text(0, 0, FALSE), Text(3, MAX_TOKENS, TRUE) }

Init ==
    /\ requests_per_minute \in RequestRates
    /\ ClientInit
    /\ ExtrasOff
    /\ PipeOff
    /\ RankOff
    /\ SimOff
    /\ ThreadsOff

Next ==
    \/ \E t \in EmbeddingTexts, mr \in 0..MaxRetries :
            get_embedding(t, mr) /\ UNCHANGED << pipeVars, rankVars, simVars, thrVars, filterVars, scrapeVars, cancel_requested >>
    \/ \E d \in Latencies : ge_gate(d) /\ UNCHANGED << pipeVars, rankVars, simVars, thrVars, filterVars, scrapeVars, cancel_requested >>
    \/ \E d \in Latencies : ge_call_ok(d) /\ UNCHANGED << pipeVars, rankVars, simVars, thrVars, filterVars, scrapeVars, cancel_requested >>
    \/ \E e \in ProviderErrors, d \in Latencies :
            ge_call_fail(e, d) /\ UNCHANGED << pipeVars, rankVars, simVars, thrVars, filterVars, scrapeVars, cancel_requested >>
    \/ \E ts \in SeqsUpTo(TextPool, MaxTexts), bs \in 1..MaxBatchSize :
            get_embeddings_batch(ts, bs) /\ UNCHANGED << pipeVars, rankVars, simVars, thrVars, filterVars, scrapeVars, cancel_requested >>
    \/ \E d \in Latencies : gb_gate(d) /\ UNCHANGED << pipeVars, rankVars, simVars, thrVars, filterVars, scrapeVars, cancel_requested >>
    \/ \E d \in Latencies : gb_call_ok(d) /\ UNCHANGED << pipeVars, rankVars, simVars, thrVars, filterVars, scrapeVars, cancel_requested >>
    \/ \E d \in Latencies : gb_call_fail(d) /\ UNCHANGED << pipeVars, rankVars, simVars, thrVars, filterVars, scrapeVars, cancel_requested >>
    \/ ret /\ UNCHANGED << pipeVars, rankVars, simVars, thrVars, filterVars, scrapeVars, cancel_requested >>

Spec == Init /\ [][Next]_vars

\* --- the same, with the progress the code has: a sleep ends after the time
\* asked for, and a provider call returns or raises
ClientStep ==
    /\ \/ \E d \in Latencies : ge_gate(d)
       \/ \E d \in Latencies : ge_call_ok(d)
       \/ \E e \in ProviderErrors, d \in Latencies : ge_call_fail(e, d)
       \/ \E d \in Latencies : gb_gate(d)
       \/ \E d \in Latencies : gb_call_ok(d)
       \/ \E d \in Latencies : gb_call_fail(d)
    /\ UNCHANGED << pipeVars, rankVars, simVars, thrVars, filterVars, scrapeVars,
                    cancel_requested >>

LiveSpec == Init /\ [][Next]_vars /\ WF_vars(ClientStep)

\* --- one run of get_recommendations on a client as constructed
\* the job source's answer: n postings
JobAt(k) ==
    Job(k,
        CASE k % 3 = 1 -> Text(1, 3, TRUE)
          [] k % 3 = 2 -> Text(2, MAX_TOKENS + 1, FALSE)
          [] OTHER     -> Text(0, 0, FALSE),
        CASE k % 3 = 1 -> 90000
          [] k % 3 = 2 -> NoSalary
          [] OTHER     -> 40000,
        IF k % 2 = 1 THEN {"Senior"} ELSE {"Junior"},
        {"full-time"},
        IF k % 3 = 2 THEN {"python"} ELSE {})

JobList(n) == [k \in 1..n |-> JobAt(k)]

ResumeAnswers ==
    { None, Some(Text(0, 0, FALSE)), Some(Text(0, 0, TRUE)),
      Some(Text(JunkId, 1, FALSE)), Some(Text(3, 4, TRUE)) }

FilterChoices ==
    { NoFilters,
      Filters(Criteria(60000, {}, {}, {})),
      Filters(Criteria(0, {"Senior"}, {"full-time"}, {"python"})),
      Filters(Criteria(0, {}, {}, {"cobol"})) }

PipeInit ==
    /\ requests_per_minute = DEFAULT_RPM
    /\ ClientInit
    /\ ExtrasOff
    /\ RankOff
    /\ SimOff
    /\ ThreadsOff
    /\ p_pc = "start"
    /\ resume_text \in ResumeAnswers
    /\ scraped \in { JobList(n) : n \in 0..MaxJobs }
    /\ filters \in FilterChoices
    /\ top_n \in 0..MaxTopN
    /\ jobs = <<>>
    /\ resume_embedding = FAILED
    /\ job_embeddings = <<>>
    /\ similarities = <<>>
    /\ recommendations = <<>>
    /\ p_result = PipeNone
    /\ trace = <<>>
    /\ saved = <<>>

\* the caller wants the run cancelled; get_recommendations takes no signal
\* and no stage reads one
p_cancel ==
    /\ p_pc \notin {"off", "done", "failed"}
    /\ ~cancel_requested
    /\ cancel_requested' = TRUE
    /\ UNCHANGED << clientVars, pipeVars, rankVars, simVars, thrVars, filterVars,
                    scrapeVars >>

PipeNext ==
    \/ p_cancel
    \/ p_parse /\ UNCHANGED << rankVars, simVars, thrVars, filterVars, scrapeVars, cancel_requested >>
    \/ p_scrape /\ UNCHANGED << rankVars, simVars, thrVars, filterVars, scrapeVars, cancel_requested >>
    \/ p_filter /\ UNCHANGED << rankVars, simVars, thrVars, filterVars, scrapeVars, cancel_requested >>
    \/ p_embed_resume /\ UNCHANGED << rankVars, simVars, thrVars, filterVars, scrapeVars, cancel_requested >>
    \/ \E d \in Latencies : ge_gate(d) /\ UNCHANGED << pipeVars, rankVars, simVars, thrVars, filterVars, scrapeVars, cancel_requested >>
    \/ \E d \in Latencies : ge_call_ok(d) /\ UNCHANGED << pipeVars, rankVars, simVars, thrVars, filterVars, scrapeVars, cancel_requested >>
    \/ \E e \in ProviderErrors, d \in Latencies :
            ge_call_fail(e, d) /\ UNCHANGED << pipeVars, rankVars, simVars, thrVars, filterVars, scrapeVars, cancel_requested >>
    \/ p_resume_embedded /\ UNCHANGED << rankVars, simVars, thrVars, filterVars, scrapeVars, cancel_requested >>
    \/ p_embed_jobs /\ UNCHANGED << rankVars, simVars, thrVars, filterVars, scrapeVars, cancel_requested >>
    \/ \E d \in Latencies : gb_gate(d) /\ UNCHANGED << pipeVars, rankVars, simVars, thrVars, filterVars, scrapeVars, cancel_requested >>
    \/ \E d \in Latencies : gb_call_ok(d) /\ UNCHANGED << pipeVars, rankVars, simVars, thrVars, filterVars, scrapeVars, cancel_requested >>
    \/ \E d \in Latencies : gb_call_fail(d) /\ UNCHANGED << pipeVars, rankVars, simVars, thrVars, filterVars, scrapeVars, cancel_requested >>
    \/ p_jobs_embedded /\ UNCHANGED << rankVars, simVars, thrVars, filterVars, scrapeVars, cancel_requested >>
    \/ p_similarities /\ UNCHANGED << rankVars, simVars, thrVars, filterVars, scrapeVars, cancel_requested >>
    \/ p_top_n /\ UNCHANGED << rankVars, simVars, thrVars, filterVars, scrapeVars, cancel_requested >>
    \/ p_return /\ UNCHANGED << rankVars, simVars, thrVars, filterVars, scrapeVars, cancel_requested >>

PipeSpec == PipeInit /\ [][PipeNext]_vars

\* --- get_top_recommendations applied to any jobs, similarities and top_n
RankJobPool == { JobAt(1), JobAt(2) }
RankScorePool == { 0, 50003, 50004, 96000 }

RankInit ==
    /\ requests_per_minute = DEFAULT_RPM
    /\ ClientInit
    /\ ExtrasOff
    /\ PipeOff
    /\ SimOff
    /\ ThreadsOff
    /\ rk_pc = "ready"
    /\ rk_jobs \in SeqsUpTo(RankJobPool, MaxRankJobs)
    /\ rk_similarities \in SeqsUpTo(RankScorePool, MaxRankJobs)
    /\ rk_top_n \in 0..MaxRankTopN
    /\ rk_result = Recommendations(<<>>)

RankNext ==
    \/ rk_get_top_recommendations /\ UNCHANGED << clientVars, pipeVars, simVars, thrVars, filterVars, scrapeVars, cancel_requested >>

RankSpec == RankInit /\ [][RankNext]_vars

\* --- calculate_similarity and calculate_similarities applied to any vectors
MaxCandidates == 3

\* None, [], zero vectors and vectors of norm 5 with 1, 2 and 3 components
VectorPool ==
    { FAILED, Vec(<<>>), Vec(<< 0, 0 >>), Vec(<< 0, 0, 0 >>), Vec(<< 5 >>),
      Vec(<< 3, 4 >>), Vec(<< 4, 3 >>), Vec(<< -4, 3 >>), Vec(<< -3, -4 >>),
      Vec(<< 0, 3, 4 >>) }

ReferencePool == { FAILED, Vec(<<>>), Vec(<< 3, 4 >>), Vec(<< 0, 0 >>) }

CandidatePool ==
    { FAILED, Vec(<< 3, 4 >>), Vec(<< 4, 3 >>), Vec(<< -3, -4 >>), Vec(<< 5 >>) }

sm_calculate_similarity ==
    /\ sm_pc = "ready"
    /\ sm_op = "calculate_similarity"
    /\ sm_result' = calculate_similarity(sm_vector1, sm_vector2)
    /\ sm_pc' = "done"
    /\ UNCHANGED << sm_op, sm_vector1, sm_vector2, sm_job_embeddings, sm_results >>

sm_calculate_similarities ==
    /\ sm_pc = "ready"
    /\ sm_op = "calculate_similarities"
    /\ sm_results' = calculate_similarities(sm_vector1, sm_job_embeddings)
    /\ sm_pc' = "done"
    /\ UNCHANGED << sm_op, sm_vector1, sm_vector2, sm_job_embeddings, sm_result >>

SimInit ==
    /\ requests_per_minute = DEFAULT_RPM
    /\ ClientInit
    /\ ExtrasOff
    /\ PipeOff
    /\ RankOff
    /\ ThreadsOff
    /\ sm_pc = "ready"
    /\ sm_result = Scored(0)
    /\ sm_results = SimilaritiesResult("ok", <<>>)
    /\ \/ /\ sm_op = "calculate_similarity"
          /\ sm_vector1 \in VectorPool
          /\ sm_vector2 \in VectorPool
          /\ sm_job_embeddings = <<>>
       \/ /\ sm_op = "calculate_similarities"
          /\ sm_vector1 \in ReferencePool
          /\ sm_vector2 = FAILED
          /\ sm_job_embeddings \in SeqsUpTo(CandidatePool, MaxCandidates)

SimNext ==
    \/ sm_calculate_similarity /\ UNCHANGED << clientVars, pipeVars, rankVars, thrVars, filterVars, scrapeVars, cancel_requested >>
    \/ sm_calculate_similarities /\ UNCHANGED << clientVars, pipeVars, rankVars, thrVars, filterVars, scrapeVars, cancel_requested >>

SimSpec == SimInit /\ [][SimNext]_vars

\* --- threads calling into one client: each call starts with _wait_if_needed
NumThreads == 2
MaxClock == 6
MaxPasses == 3

Threads == 1..NumThreads

\* current_time = time.time()
th_clock(t) ==
    /\ th_pc[t] = "idle"
    /\ Len(passes) < MaxPasses
    /\ th_current_time' = [th_current_time EXCEPT ![t] = now]
    /\ th_pc' = [th_pc EXCEPT ![t] = "read"]
    /\ UNCHANGED << now, last_request_time, th_wake, th_stamp, passes >>

\* time_since_last = current_time - self.last_request_time, with the
\* last_request_time of this moment; the thread goes to sleep for wait_time,
\* counted from this moment, or straight on
th_read(t) ==
    /\ th_pc[t] = "read"
    /\ LET time_since_last == th_current_time[t] - last_request_time
       IN  IF time_since_last < request_interval
           THEN /\ th_wake' = [th_wake EXCEPT ![t] = now + (request_interval - time_since_last)]
                /\ th_pc' = [th_pc EXCEPT ![t] = "sleep"]
           ELSE /\ th_pc' = [th_pc EXCEPT ![t] = "stamp"]
                /\ UNCHANGED th_wake
    /\ th_current_time' = [th_current_time EXCEPT ![t] = 0]
    /\ UNCHANGED << now, last_request_time, th_stamp, passes >>

\* time.sleep(wait_time) is over
th_sleep(t) ==
    /\ th_pc[t] = "sleep"
    /\ now >= th_wake[t]
    /\ th_pc' = [th_pc EXCEPT ![t] = "stamp"]
    /\ UNCHANGED << now, last_request_time, th_wake, th_current_time, th_stamp, passes >>

\* the time.time() on the right of self.last_request_time = time.time()
th_stamp_time(t) ==
    /\ th_pc[t] = "stamp"
    /\ th_stamp' = [th_stamp EXCEPT ![t] = now]
    /\ th_pc' = [th_pc EXCEPT ![t] = "write"]
    /\ UNCHANGED << now, last_request_time, th_wake, th_current_time, passes >>

\* the store of self.last_request_time; the thread leaves the gate
th_write(t) ==
    /\ th_pc[t] = "write"
    /\ last_request_time' = th_stamp[t]
    /\ passes' = Append(passes, now)
    /\ th_pc' = [th_pc EXCEPT ![t] = "idle"]
    /\ th_stamp' = [th_stamp EXCEPT ![t] = 0]
    /\ UNCHANGED << now, th_wake, th_current_time >>

\* one tick of the clock
th_tick ==
    /\ now < MaxClock
    /\ now' = now + 1
    /\ UNCHANGED << last_request_time, th_pc, th_wake, th_current_time, th_stamp, passes >>

\* self.last_request_time = 0 at construction, long before the first call
ThreadsInit ==
    /\ requests_per_minute \in RequestRates \ {DEFAULT_RPM}
    /\ ClientInit
    /\ ExtrasOff
    /\ PipeOff
    /\ RankOff
    /\ SimOff
    /\ now = request_interval
    /\ last_request_time = 0
    /\ th_pc = [t \in Threads |-> "idle"]
    /\ th_wake = [t \in Threads |-> 0]
    /\ th_current_time = [t \in Threads |-> 0]
    /\ th_stamp = [t \in Threads |-> 0]
    /\ passes = <<>>

ThreadsNext ==
    \/ \E t \in Threads : th_clock(t) /\ UNCHANGED << clientVars, pipeVars, rankVars, simVars, filterVars, scrapeVars, cancel_requested >>
    \/ \E t \in Threads : th_read(t) /\ UNCHANGED << clientVars, pipeVars, rankVars, simVars, filterVars, scrapeVars, cancel_requested >>
    \/ \E t \in Threads : th_sleep(t) /\ UNCHANGED << clientVars, pipeVars, rankVars, simVars, filterVars, scrapeVars, cancel_requested >>
    \/ \E t \in Threads : th_stamp_time(t) /\ UNCHANGED << clientVars, pipeVars, rankVars, simVars, filterVars, scrapeVars, cancel_requested >>
    \/ \E t \in Threads : th_write(t) /\ UNCHANGED << clientVars, pipeVars, rankVars, simVars, filterVars, scrapeVars, cancel_requested >>
    \/ th_tick /\ UNCHANGED << clientVars, pipeVars, rankVars, simVars, filterVars, scrapeVars, cancel_requested >>

ThreadsSpec == ThreadsInit /\ [][ThreadsNext]_vars

\* --- filter_jobs applied to any jobs and criteria
MaxFilterJobs == 6

SalaryFloors == { 0, 60000, 100000 }
LevelChoices == { {}, {"Senior"}, {"Junior", "Senior"}, {"Lead"} }
TypeChoices == { {}, {"full-time"}, {"contract"} }
SkillChoices == { {}, {"python"}, {"cobol"}, {""} }

fl_filter_jobs ==
    /\ fl_pc = "ready"
    /\ fl_result' = filter_jobs(fl_jobs, fl_criteria)
    /\ fl_pc' = "done"
    /\ UNCHANGED << fl_jobs, fl_criteria >>

FilterInit ==
    /\ requests_per_minute = DEFAULT_RPM
    /\ ClientInit
    /\ PipeOff
    /\ RankOff
    /\ SimOff
    /\ ThreadsOff
    /\ ScraperOff
    /\ cancel_requested = FALSE
    /\ fl_pc = "ready"
    /\ fl_jobs \in { JobList(n) : n \in 0..MaxFilterJobs }
    /\ fl_criteria \in { Criteria(s, l, t, k) :
                            s \in SalaryFloors, l \in LevelChoices,
                            t \in TypeChoices, k \in SkillChoices }
    /\ fl_result = <<>>

FilterNext ==
    \/ fl_filter_jobs
         /\ UNCHANGED << clientVars, pipeVars, rankVars, simVars, thrVars, scrapeVars,
                         cancel_requested >>

FilterSpec == FilterInit /\ [][FilterNext]_vars

\* ------------------------------------------------------------- job scraper
MaxPages == 3

\* results_per_page = 50
results_per_page == 50

\* max_jobs as callers pass it
MaxJobsChoices == {0, 1, results_per_page - 1, results_per_page,
                   results_per_page + 1, 2 * results_per_page}

\* len(results) of a page that was read; the server is not bound by the
\* results_per_page it was asked for
PageSizes == {0, 1, results_per_page - 1, results_per_page}

\* how many of a page's n results _convert_adzuna_job turns into None
Unconvertible(n) == {0, Min(1, n), n}

\* progress_callback: not given, given, given and raising an Exception
Callbacks == {"none", "ok", "raises"}

\* a converted job, by the page and the position it came from
ScrapedJob(page, pos) == [page |-> page, index |-> pos]

\* the job_data a page of n results adds to all_jobs, the first `bad` results
\* being the ones that do not convert
converted(page, n, bad) == [pos \in 1..(n - bad) |-> ScrapedJob(page, bad + pos)]

\* 'results_per_page': min(results_per_page, max_jobs - len(all_jobs))
asked_for == Min(results_per_page, sc_max_jobs - Len(sc_all_jobs))

\* return all_jobs[:max_jobs]
sc_return(all_jobs) ==
    /\ sc_result' = [kind |-> "ok", jobs |-> Take(all_jobs, sc_max_jobs)]
    /\ sc_pc' = "done"

\* while len(all_jobs) < max_jobs: false
sc_loop_exit ==
    /\ sc_pc = "loop"
    /\ Len(sc_all_jobs) >= sc_max_jobs
    /\ sc_return(sc_all_jobs)
    /\ UNCHANGED << sc_max_jobs, sc_all_jobs, sc_page, sc_fetches >>

\* one pass of the loop in which a page is read
sc_fetch_page(n, bad, callback) ==
    /\ sc_pc = "loop"
    /\ Len(sc_all_jobs) < sc_max_jobs
    /\ sc_page <= MaxPages
    /\ sc_fetches' = Append(sc_fetches,
            [page |-> sc_page, asked |-> asked_for, outcome |-> "page",
             results |-> n, skipped |-> bad, callback |-> callback])
    /\ IF n = 0
       THEN /\ sc_return(sc_all_jobs)
            /\ UNCHANGED << sc_all_jobs, sc_page >>
       ELSE /\ sc_all_jobs' = sc_all_jobs \o converted(sc_page, n, bad)
            /\ IF callback = "raises" \/ n < results_per_page
               THEN /\ sc_return(sc_all_jobs')
                    /\ UNCHANGED sc_page
               ELSE /\ sc_page' = sc_page + 1
                    /\ UNCHANGED << sc_pc, sc_result >>
    /\ UNCHANGED sc_max_jobs

\* one pass of the loop in which the request, raise_for_status or the parse
\* of the answer raises: logged, and the function returns
sc_fetch_error_raises ==
    /\ sc_pc = "loop"
    /\ Len(sc_all_jobs) < sc_max_jobs
    /\ sc_page <= MaxPages
    /\ sc_fetches' = Append(sc_fetches,
            [page |-> sc_page, asked |-> asked_for, outcome |-> "error",
             results |-> 0, skipped |-> 0, callback |-> "none"])
    /\ sc_result' = [kind |-> "raised", jobs |-> <<>>]
    /\ sc_pc' = "done"
    /\ UNCHANGED << sc_max_jobs, sc_all_jobs, sc_page >>

sc_fetch_error ==
    /\ sc_pc = "loop"
    /\ Len(sc_all_jobs) < sc_max_jobs
    /\ sc_page <= MaxPages
    /\ sc_fetches' = Append(sc_fetches,
            [page |-> sc_page, asked |-> asked_for, outcome |-> "error",
             results |-> 0, skipped |-> 0, callback |-> "none"])
    /\ sc_return(sc_all_jobs)
    /\ UNCHANGED << sc_max_jobs, sc_all_jobs, sc_page >>

ScrapeInit ==
    /\ requests_per_minute = DEFAULT_RPM
    /\ ClientInit
    /\ PipeOff
    /\ RankOff
    /\ SimOff
    /\ ThreadsOff
    /\ FilterOff
    /\ cancel_requested = FALSE
    /\ sc_pc = "loop"
    /\ sc_max_jobs \in MaxJobsChoices
    /\ sc_all_jobs = <<>>
    /\ sc_page = 1
    /\ sc_fetches = <<>>
    /\ sc_result = [kind |-> "none", jobs |-> <<>>]

ScrapeNext ==
    \/ sc_loop_exit
         /\ UNCHANGED << clientVars, pipeVars, rankVars, simVars, thrVars, filterVars,
                         cancel_requested >>
    \/ \E n \in PageSizes : \E bad \in Unconvertible(n) : \E callback \in Callbacks :
         /\ sc_fetch_page(n, bad, callback)
         /\ UNCHANGED << clientVars, pipeVars, rankVars, simVars, thrVars, filterVars,
                         cancel_requested >>
    \/ sc_fetch_error
         /\ UNCHANGED << clientVars, pipeVars, rankVars, simVars, thrVars, filterVars,
                         cancel_requested >>

ScrapeSpec == ScrapeInit /\ [][ScrapeNext]_vars

\* =============================================================== properties
\* total_batches = (len(texts) + batch_size - 1) // batch_size
total_batches == (Len(texts) + batch_size - 1) \div batch_size

\* the chunk (1-based) that holds position k (1-based) of texts
ChunkOf(k) == ((k - 1) \div batch_size) + 1

BatchDone == op = "get_embeddings_batch" /\ pc = "done"
EmbeddingDone == op = "get_embedding" /\ pc = "done"

\* C1: get_embeddings_batch returns exactly len(texts) entries, entry k being
\* the provider's vector for texts[k] or FAILED, in input order, for every
\* chunk size >= 1 and whatever chunks fail; while it runs, all_embeddings
\* holds one entry for each text of the chunks already processed.
C1_BatchLengthAndOrder ==
    (op = "get_embeddings_batch") =>
        /\ Len(all_embeddings) = Min(i, Len(texts))
        /\ pc = "done" =>
              /\ result.kind = "embeddings"
              /\ Len(result.vecs) = Len(texts)
              /\ \A k \in 1..Len(texts) :
                    \/ result.vecs[k] = FAILED
                    \/ result.vecs[k] = Vec(Embed(BatchInput(texts[k])))

\* a batch of several chunks of which every provider call failed
C1_Witness ==
    /\ BatchDone
    /\ Len(texts) = MaxTexts
    /\ batch_size = MaxBatchSize
    /\ Len(calls) >= 2
    /\ \A c \in 1..Len(calls) : ~calls[c].ok
    /\ result.vecs = [k \in 1..Len(texts) |-> FAILED]

\* C2: when the provider call of chunk c raises, exactly the positions of
\* chunk c are FAILED, the positions of every chunk that succeeded hold their
\* vectors, and every chunk, also after a failed one, is submitted once.
C2_FailureIsolation ==
    BatchDone =>
        /\ Len(calls) = total_batches
        /\ Len(result.vecs) = Len(texts)
        /\ \A k \in 1..Len(texts) :
              IF calls[ChunkOf(k)].ok
              THEN result.vecs[k] = Vec(Embed(BatchInput(texts[k])))
              ELSE result.vecs[k] = FAILED

\* a failed first chunk followed by a chunk that was submitted and succeeded
C2_Witness ==
    /\ BatchDone
    /\ Len(calls) = 2
    /\ ~calls[1].ok
    /\ calls[2].ok
    /\ result.vecs[1] = FAILED
    /\ result.vecs[Len(texts)] # FAILED

\* C3: get_embedding makes at most max_retries provider calls; only the last
\* call can be a success, and then its vector is returned; when all
\* max_retries calls have failed it raises, carrying the last call's error.
C3_RetryBound ==
    (op = "get_embedding") =>
        /\ Len(calls) <= max_retries
        /\ \A c \in 1..Len(calls) :
              calls[c].ok => /\ c = Len(calls)
                             /\ pc = "done"
                             /\ result = Returned(Embed(text))
        /\ (pc = "done" /\ calls # <<>> /\ ~calls[Len(calls)].ok) =>
              /\ Len(calls) = max_retries
              /\ result.kind = "Exception"
              /\ result.cause = calls[Len(calls)].err
        /\ (pc = "done" /\ result.kind = "embedding") =>
              (calls # <<>> /\ calls[Len(calls)].ok)

\* all attempts failed, with different errors, the last one being reported
C3_Witness ==
    /\ EmbeddingDone
    /\ max_retries = MaxRetries
    /\ Len(calls) = MaxRetries
    /\ calls[1].err = "RateLimitError"
    /\ calls[Len(calls)].err = "APIConnectionError"
    /\ result.kind = "Exception"
    /\ result.cause = "APIConnectionError"

\* C4: every provider call follows a pass of the rate-limit gate, two
\* consecutive recorded timestamps are at least request_interval apart, and
\* k gate passes in sequence span at least (k - 1) * request_interval.
C4_RateLimit ==
    /\ gates = Len(calls) + (IF pc \in {"ge_call", "gb_call"} THEN 1 ELSE 0)
    /\ pc \in {"ge_call", "gb_call"} => since_last = 0
    /\ last_gap >= request_interval
    /\ ngates >= 1 => gate_span >= (ngates - 1) * request_interval

\* at 2 calls per second, a third sequential get_embedding has passed the
\* gate exactly one second after the first, having waited for it
C4_Witness ==
    /\ requests_per_minute = 120
    /\ op = "get_embedding"
    /\ pc = "ge_call"
    /\ gates = 1
    /\ ngates = 3
    /\ gate_span = 2 * request_interval
    /\ gate_span = TicksPerSecond
    /\ last_gap = request_interval

\* ------------------------------------------------------------------ ranking
\* get_top_recommendations has returned a list for lists of equal length
RankReturned ==
    /\ rk_pc = "done"
    /\ Len(rk_jobs) = Len(rk_similarities)
    /\ rk_result.kind = "ok"

\* the place of candidate k in the stable descending order: behind every
\* candidate with a higher score and every earlier candidate with the same score
StablePlace(k) ==
    1 + Cardinality({ j \in 1..Len(rk_similarities) :
                        rk_similarities[j] > rk_similarities[k] })
      + Cardinality({ j \in 1..(k - 1) : rk_similarities[j] = rk_similarities[k] })

\* C8: get_top_recommendations returns the candidates by descending score,
\* candidates of equal score in their input order, and what it returns is a
\* prefix of that stable descending order of all the candidates.
C8_StableDescendingPrefix ==
    RankReturned =>
        LET recs == rk_result.recs
        IN  /\ Len(recs) <= Len(rk_jobs)
            /\ \A r \in 1..Len(recs) :
                  \E k \in 1..Len(rk_jobs) :
                      /\ StablePlace(k) = r
                      /\ recs[r] = Recommendation(rk_jobs[k], rk_similarities[k])
            /\ \A r \in 1..(Len(recs) - 1) :
                  recs[r].similarity >= recs[r + 1].similarity

\* two different candidates tie, a later one outscores both, and the list
\* is cut inside the tie
C8_Witness ==
    /\ RankReturned
    /\ Len(rk_jobs) = 3
    /\ rk_jobs[1] # rk_jobs[2]
    /\ rk_similarities[1] = rk_similarities[2]
    /\ rk_similarities[3] > rk_similarities[1]
    /\ rk_top_n = 2
    /\ rk_result.recs = << Recommendation(rk_jobs[3], rk_similarities[3]),
                           Recommendation(rk_jobs[1], rk_similarities[1]) >>

\* C9: for a count n >= 0, get_top_recommendations returns
\* min(n, len(candidates)) entries: at most n, and every candidate when n
\* exceeds the number available.
C9_TopNCount ==
    (rk_pc = "done" /\ Len(rk_jobs) = Len(rk_similarities)) =>
        /\ rk_result.kind = "ok"
        /\ Len(rk_result.recs) = Min(rk_top_n, Len(rk_jobs))

\* the count exceeds the two candidates there are, and both come back
C9_Witness ==
    /\ RankReturned
    /\ Len(rk_jobs) = 2
    /\ rk_top_n > Len(rk_jobs)
    /\ Len(rk_result.recs) = 2

\* C10: when the two lists differ in length, get_top_recommendations raises
\* the length mismatch error, which names both lengths, and returns nothing.
C10_LengthMismatch ==
    (rk_pc = "done" /\ Len(rk_jobs) # Len(rk_similarities)) =>
        /\ rk_result.kind = "ValueError"
        /\ rk_result.lens = << Len(rk_jobs), Len(rk_similarities) >>
        /\ rk_result.recs = <<>>

\* more candidates than scores, and a count that would have been satisfied
C10_Witness ==
    /\ rk_pc = "done"
    /\ Len(rk_jobs) = 2
    /\ Len(rk_similarities) = 1
    /\ rk_top_n = 1
    /\ rk_result = LengthMismatch(2, 1)

\* ----------------------------------------------------------------- pipeline
\* the stages of get_recommendations, in the order of its statements
StageOrder ==
    << "parse", "scrape", "filter", "embed_resume", "embed_jobs",
       "similarities", "top_n", "return" >>

Ran(stage) == \E n \in 1..Len(trace) : trace[n] = stage

\* stage a ran, and ran before stage b if b ran at all
Precedes(a, b) ==
    \A n \in 1..Len(trace) :
        trace[n] = b => \E m \in 1..(n - 1) : trace[m] = a

IsPrefix(s, t) == Len(s) <= Len(t) /\ s = SubSeq(t, 1, Len(s))

\* no stage runs twice or out of the order of the statements
InStageOrder ==
    \A m, n \in 1..Len(trace) :
        m < n => \E a, b \in 1..Len(StageOrder) :
                    a < b /\ trace[m] = StageOrder[a] /\ trace[n] = StageOrder[b]

\* what C6 says of the stages after the resume and the candidates
LaterStagesInOrder ==
    /\ InStageOrder
    /\ Precedes("parse", "embed_resume")
    /\ Precedes("embed_resume", "embed_jobs")
    /\ Precedes("embed_jobs", "similarities")
    /\ Precedes("similarities", "top_n")
    /\ Precedes("top_n", "return")
    /\ p_pc = "done" => (Ran("top_n") /\ Ran("return") /\ p_result.kind = "ok")
    /\ p_result.kind = "ok" => p_pc = "done"

\* C5 as stated: after the batch embedding of the jobs the run fails with the
\* embedding error only if every job vector is FAILED; with one vector
\* produced it goes on to the ranking.
C5_FailsOnlyIfAllFailed ==
    (Ran("embed_jobs") /\ p_pc = "failed") =>
        \A k \in 1..Len(job_embeddings) : job_embeddings[k] = FAILED

\* C6 as stated: the resume is embedded before the candidates are obtained.
C6_ResumeEmbeddedBeforeCandidates ==
    /\ LaterStagesInOrder
    /\ Precedes("embed_resume", "scrape")

\* C6: every run goes through its stages in one order: the resume is
\* extracted, the candidates are obtained and filtered, only then is the
\* resume cleaned and embedded, the batch embedding of the jobs follows,
\* then similarityAll, then topN, and the run is done only through the ranking.
C6_StageOrder ==
    /\ LaterStagesInOrder
    /\ Precedes("parse", "scrape")
    /\ Precedes("scrape", "filter")
    /\ Precedes("scrape", "embed_resume")
    /\ (filters.given /\ Ran("embed_resume")) => Ran("filter")

\* a filtered run that returned: all eight stages, in order
C6_Witness ==
    /\ p_pc = "done"
    /\ trace = StageOrder
    /\ p_result.kind = "ok"
    /\ Len(p_result.recs) = 2

\* the stage at which the run has to end, if the inputs decide it
EmptyResume == NotText(resume_text)
NoJobsFound == ~EmptyResume /\ scraped = <<>>
NoJobsMatchFilters ==
    /\ ~EmptyResume
    /\ scraped # <<>>
    /\ filters.given
    /\ filter_jobs(scraped, filters.criteria) = <<>>

\* the run went no further than the stages of path, and at the end of path it
\* has failed with the error of that stage
EndsAt(path, msg) ==
    /\ IsPrefix(trace, path)
    /\ trace = path => (p_pc = "failed" /\ p_result = PipeRaised("ValueError", msg))

\* get_embedding has raised for the resume
ResumeEmbeddingFailed ==
    /\ Ran("embed_resume")
    /\ p_pc # "embedding_resume"
    /\ resume_embedding = FAILED

\* C7: an empty resume, an empty answer of the job source, a filter that
\* leaves no job, or a failed embedding of the resume ends the run in one
\* error: no later stage runs and no recommendation list comes back.
C7_SingleTerminalError ==
    /\ EmptyResume => EndsAt(<< "parse" >>, "Failed to extract text from resume")
    /\ NoJobsFound => EndsAt(<< "parse", "scrape" >>, "No jobs found")
    /\ NoJobsMatchFilters =>
          EndsAt(<< "parse", "scrape", "filter" >>, "No jobs match filter criteria")
    /\ ResumeEmbeddingFailed =>
          /\ p_pc = "failed"
          /\ trace[Len(trace)] = "embed_resume"
          /\ p_result.kind \in {"ValueError", "Exception"}
    /\ (EmptyResume \/ NoJobsFound \/ NoJobsMatchFilters \/ ResumeEmbeddingFailed) =>
          /\ p_result.kind # "ok"
          /\ p_result.recs = <<>>
          /\ recommendations = <<>>
          /\ job_embeddings = <<>>
    /\ p_pc = "failed" => (p_result.kind \notin {"ok", "none"} /\ ~ENABLED PipeNext)

\* the provider refused the resume three times, after the filter had passed
C7_Witness ==
    /\ p_pc = "failed"
    /\ trace = << "parse", "scrape", "filter", "embed_resume" >>
    /\ p_result.kind = "Exception"
    /\ pc = "idle"

\* --------------------------------------------------------------- similarity
\* calculate_similarity has returned or raised
SimilarityDone == sm_pc = "done" /\ sm_op = "calculate_similarity"

\* both arguments are lists, and their lengths differ
LengthsDiffer(v1, v2) == v1.ok /\ v2.ok /\ Len(v1.vec) # Len(v2.vec)

\* C11 as stated: calculate_similarity raises the dimension mismatch error
\* for every pair of vectors whose lengths differ.
C11_RaisesForEveryLengthDifference ==
    (SimilarityDone /\ LengthsDiffer(sm_vector1, sm_vector2)) =>
        sm_result = DimensionMismatch(Len(sm_vector1.vec), Len(sm_vector2.vec))

\* C11: calculate_similarity raises the dimension mismatch error, naming both
\* lengths, for every pair of non-empty vectors whose lengths differ, all-zero
\* vectors included; with an empty vector it returns 0.0 instead.
C11_DimensionMismatch ==
    (SimilarityDone /\ LengthsDiffer(sm_vector1, sm_vector2)) =>
        IF sm_vector1.vec = <<>> \/ sm_vector2.vec = <<>>
        THEN sm_result = Scored(0)
        ELSE sm_result = DimensionMismatch(Len(sm_vector1.vec), Len(sm_vector2.vec))

\* a zero vector of two components against a vector of one
C11_Witness ==
    /\ SimilarityDone
    /\ sm_vector1 = Vec(<< 0, 0 >>)
    /\ sm_vector2 = Vec(<< 5 >>)
    /\ sm_result = DimensionMismatch(2, 1)

\* C12 as stated: calculate_similarity returns 0.0, without raising, whenever
\* either vector is empty or either vector is all-zero.
C12_ZeroForEveryEmptyOrZero ==
    (/\ SimilarityDone
     /\ \/ IsFalsy(sm_vector1) \/ IsFalsy(sm_vector2)
        \/ AllZero(sm_vector1.vec) \/ AllZero(sm_vector2.vec)) =>
        sm_result = Scored(0)

\* C12: calculate_similarity returns exactly 0.0, without raising, whenever
\* either vector is empty (or None), and whenever the vectors have the same
\* length and either is all-zero; an all-zero vector against a non-empty
\* vector of another length raises the dimension mismatch error.
C12_ZeroForEmptyOrZero ==
    SimilarityDone =>
        LET empty1 == ~sm_vector1.ok \/ sm_vector1.vec = <<>>
            empty2 == ~sm_vector2.ok \/ sm_vector2.vec = <<>>
        IN  /\ (empty1 \/ empty2) => sm_result = Scored(0)
            /\ (/\ ~empty1 /\ ~empty2
                /\ AllZero(sm_vector1.vec) \/ AllZero(sm_vector2.vec)) =>
                  IF Len(sm_vector1.vec) = Len(sm_vector2.vec)
                  THEN sm_result = Scored(0)
                  ELSE sm_result.kind = "ValueError"

\* an empty list against a vector of two components
C12_Witness ==
    /\ SimilarityDone
    /\ sm_vector1 = Vec(<<>>)
    /\ sm_vector2 = Vec(<< 3, 4 >>)
    /\ sm_result = Scored(0)

\* calculate_similarities has returned or raised
SimilaritiesDone == sm_pc = "done" /\ sm_op = "calculate_similarities"

\* the score of candidate k when it is the only candidate
ScoreAlone(k) ==
    calculate_similarities(sm_vector1, << sm_job_embeddings[k] >>).scores[1]

\* C13: for a non-empty reference, calculate_similarities returns one score
\* per candidate in input order; a FAILED candidate gets 0.0 at its own index
\* and neither aborts the call nor changes the score of another candidate.
C13_OneScorePerCandidate ==
    (SimilaritiesDone /\ ~IsFalsy(sm_vector1)) =>
        /\ sm_results.kind = "ok"
        /\ Len(sm_results.scores) = Len(sm_job_embeddings)
        /\ \A k \in 1..Len(sm_job_embeddings) :
              /\ sm_job_embeddings[k] = FAILED => sm_results.scores[k] = 0
              /\ sm_results.scores[k] = ScoreAlone(k)
              /\ (sm_job_embeddings[k].ok
                    /\ Len(sm_job_embeddings[k].vec) = Len(sm_vector1.vec)) =>
                    sm_results.scores[k] =
                        calculate_similarity(sm_vector1, sm_job_embeddings[k]).score

\* a FAILED candidate between two that were embedded
C13_Witness ==
    /\ SimilaritiesDone
    /\ sm_vector1 = Vec(<< 3, 4 >>)
    /\ sm_job_embeddings = << Vec(<< 4, 3 >>), FAILED, Vec(<< 3, 4 >>) >>
    /\ sm_results = SimilaritiesResult("ok", << 96000, 0, 100000 >>)

\* C14 as stated: a precondition violation in the ranking path reaches the
\* caller of the call in which it occurs and is never absorbed into a score:
\* an empty reference, and a dimension mismatch of one candidate while
\* calculate_similarities runs, both make calculate_similarities raise.
C14_ViolationsEscalate ==
    SimilaritiesDone =>
        /\ IsFalsy(sm_vector1) => sm_results.kind = "ValueError"
        /\ (/\ ~IsFalsy(sm_vector1)
            /\ \E k \in 1..Len(sm_job_embeddings) :
                  /\ ~IsFalsy(sm_job_embeddings[k])
                  /\ LengthsDiffer(sm_vector1, sm_job_embeddings[k])) =>
              sm_results.kind = "ValueError"

\* C18: whenever calculate_similarity returns, the score is in [0.0, 1.0];
\* a negative cosine comes back as 0.0, the score of orthogonal vectors.
C18_ScoreRange ==
    (SimilarityDone /\ sm_result.kind = "ok") =>
        /\ 0 <= sm_result.score
        /\ sm_result.score <= ScoreScale
        /\ (/\ ~IsFalsy(sm_vector1) /\ ~IsFalsy(sm_vector2)
            /\ Dot(sm_vector1.vec, sm_vector2.vec) <= 0) =>
              sm_result.score = 0

\* opposite vectors: cosine -1, score 0.0
C18_Witness ==
    /\ SimilarityDone
    /\ sm_vector1 = Vec(<< 3, 4 >>)
    /\ sm_vector2 = Vec(<< -3, -4 >>)
    /\ Cosine(sm_vector1.vec, sm_vector2.vec) = -ScoreScale
    /\ sm_result = Scored(0)

\* C19 as stated: for every non-empty vector v, calculate_similarity(v, v)
\* is 1.0.
C19_SelfSimilarityOfEveryVector ==
    (SimilarityDone /\ sm_vector1 = sm_vector2 /\ ~IsFalsy(sm_vector1)) =>
        sm_result = Scored(ScoreScale)

\* C19: for every non-empty vector v that is not all-zero,
\* calculate_similarity(v, v) is 1.0; for an all-zero v it is 0.0.
C19_SelfSimilarity ==
    (SimilarityDone /\ sm_vector1 = sm_vector2 /\ ~IsFalsy(sm_vector1)) =>
        IF AllZero(sm_vector1.vec)
        THEN sm_result = Scored(0)
        ELSE sm_result = Scored(ScoreScale)

\* a vector of three components against itself
C19_Witness ==
    /\ SimilarityDone
    /\ sm_vector1 = Vec(<< 0, 3, 4 >>)
    /\ sm_vector2 = sm_vector1
    /\ sm_result = Scored(ScoreScale)

\* ------------------------------------------------------- client, continued
\* get_embedding is being called with "" or with whitespace only
CalledWithBlank ==
    /\ pc = "idle"
    /\ pc' # "idle"
    /\ op' = "get_embedding"
    /\ arg_text'.ntok = 0

\* C16: get_embedding called with an empty or whitespace-only text raises
\* ValueError at once: no provider call, no pass of the gate, no sleep, and
\* the rate budget (the time since the last recorded request) as it was.
C16_BlankTextRejected ==
    /\ [](EmbeddingDone /\ arg_text.ntok = 0 =>
            /\ result = Raised("ValueError", "Text cannot be empty", "")
            /\ calls = <<>>
            /\ gates = 0
            /\ sleeps = <<>>)
    /\ [][CalledWithBlank =>
            /\ pc' = "done"
            /\ since_last' = since_last
            /\ last_gap' = last_gap]_vars

\* whitespace only, rejected right after an earlier request was recorded
C16_Witness ==
    /\ EmbeddingDone
    /\ arg_text = Text(0, 0, TRUE)
    /\ result.kind = "ValueError"
    /\ calls = <<>>
    /\ since_last = 0

\* the texts of chunk c (1-based), as submitted
ChunkInput(c) ==
    [k \in 1..(Min(c * batch_size, Len(texts)) - (c - 1) * batch_size) |->
        BatchInput(texts[(c - 1) * batch_size + k])]

\* C17: get_embeddings_batch cuts texts into contiguous chunks of batch_size,
\* only the last of which may be shorter, and makes exactly one provider call
\* per chunk, failed or not: ceil(len(texts) / batch_size) calls in all.
C17_OneCallPerChunk ==
    (op = "get_embeddings_batch") =>
        /\ Len(calls) = i \div batch_size
        /\ \A c \in 1..Len(calls) :
              /\ calls[c].input = ChunkInput(c)
              /\ c < total_batches => Len(calls[c].input) = batch_size
              /\ Len(calls[c].input) >= 1
        /\ pc = "done" =>
              /\ Len(calls) = total_batches
              /\ Len(calls) * batch_size >= Len(texts)
              /\ (Len(calls) - 1) * batch_size < Len(texts) \/ texts = <<>>

\* three texts in chunks of two: a failed call of size 2, then one of size 1
C17_Witness ==
    /\ BatchDone
    /\ Len(texts) = 3
    /\ batch_size = 2
    /\ Len(calls) = 2
    /\ ~calls[1].ok
    /\ Len(calls[1].input) = 2
    /\ calls[2].ok
    /\ Len(calls[2].input) = 1

\* ------------------------------------------------------- ranking, continued
\* C20 as stated: get_top_recommendations returns an empty list, without
\* raising, whenever the candidates list or the scores list is empty.
C20_EmptyForEitherEmpty ==
    (rk_pc = "done" /\ (rk_jobs = <<>> \/ rk_similarities = <<>>)) =>
        rk_result = Recommendations(<<>>)

\* C20: get_top_recommendations returns an empty list, without raising, when
\* the candidates list and the scores list are both empty; when exactly one
\* of them is empty it raises the length mismatch error.
C20_EmptyInputs ==
    (rk_pc = "done" /\ (rk_jobs = <<>> \/ rk_similarities = <<>>)) =>
        IF rk_jobs = <<>> /\ rk_similarities = <<>>
        THEN rk_result = Recommendations(<<>>)
        ELSE rk_result = LengthMismatch(Len(rk_jobs), Len(rk_similarities))

\* no candidates, no scores, two asked for
C20_Witness ==
    /\ rk_pc = "done"
    /\ rk_jobs = <<>>
    /\ rk_similarities = <<>>
    /\ rk_top_n = 2
    /\ rk_result = Recommendations(<<>>)

\* ------------------------------------------------------------------ threads
\* C15 as stated: of the threads that call into one client, no two leave the
\* rate-limit gate within the same minimum interval.
C15_NoTwoPassesWithinInterval ==
    \A k \in 1..(Len(passes) - 1) : passes[k + 1] - passes[k] >= request_interval

\* ---------------------------------------------------- similarity, continued
\* C21: calculate_similarities raises the empty-reference error whenever the
\* reference is empty or None, whatever the candidates, an empty candidate
\* list included, and returns no scores then.
C21_EmptyReference ==
    (SimilaritiesDone /\ (~sm_vector1.ok \/ sm_vector1.vec = <<>>)) =>
        /\ sm_results.kind = "ValueError"
        /\ sm_results.scores = <<>>

\* an empty reference and no candidates
C21_Witness ==
    /\ SimilaritiesDone
    /\ sm_vector1 = Vec(<<>>)
    /\ sm_job_embeddings = <<>>
    /\ sm_results = SimilaritiesResult("ValueError", <<>>)

\* ------------------------------------------------------- ranking, continued
\* rec is job with one field more: the score to the nearest 0.0001
IsCopyWithSimilarity(rec, job, score) ==
    /\ DOMAIN rec = DOMAIN job \cup {"similarity"}
    /\ \A f \in DOMAIN job : rec[f] = job[f]
    /\ rec.similarity % 10 = 0
    /\ rec.similarity - score < 5
    /\ score - rec.similarity < 5

\* C22: every recommendation returned by get_top_recommendations is a copy
\* of its candidate, all attributes kept, with similarity set to the score
\* rounded to 4 digits, at the position that is its rank; the call leaves
\* the candidates and the scores it was given as they were.
C22_CopyWithSimilarity ==
    /\ [](RankReturned =>
            \A r \in 1..Len(rk_result.recs) :
                \E k \in 1..Len(rk_jobs) :
                    /\ StablePlace(k) = r
                    /\ IsCopyWithSimilarity(rk_result.recs[r], rk_jobs[k],
                                            rk_similarities[k]))
    /\ [][rk_pc' = "done" =>
            /\ rk_jobs' = rk_jobs
            /\ rk_similarities' = rk_similarities]_vars

\* the second candidate outranks the first; both keep their attributes and
\* get their score to 4 digits
C22_Witness ==
    /\ RankReturned
    /\ rk_jobs = << JobAt(1), JobAt(2) >>
    /\ rk_similarities = << 50003, 50004 >>
    /\ Len(rk_result.recs) = 2
    /\ rk_result.recs[1].id = 2
    /\ rk_result.recs[1].similarity = 50000
    /\ rk_result.recs[2].id = 1
    /\ rk_result.recs[2].salary = JobAt(1).salary

\* ------------------------------------------------------------------- filter
\* the job passes every criterion that was supplied
PassesAll(job) ==
    /\ fl_criteria.salary_min > 0 => passes_salary(job, fl_criteria.salary_min)
    /\ fl_criteria.experience_levels # {} =>
          passes_experience(job, fl_criteria.experience_levels)
    /\ fl_criteria.job_types # {} => passes_job_type(job, fl_criteria.job_types)
    /\ fl_criteria.required_skills # {} =>
          passes_skills(job, fl_criteria.required_skills)

\* C23: filter_jobs without criteria returns all jobs; with criteria it
\* returns, in input order, exactly the jobs that pass every criterion
\* supplied; it leaves the list it was given as it was.
C23_FilterConjunctive ==
    /\ [](fl_pc = "done" =>
            /\ fl_criteria = Criteria(0, {}, {}, {}) => fl_result = fl_jobs
            /\ \A k \in 1..Len(fl_jobs) :
                  PassesAll(fl_jobs[k]) <=>
                      \E r \in 1..Len(fl_result) : fl_result[r] = fl_jobs[k]
            /\ \A r \in 1..Len(fl_result) :
                  \E k \in 1..Len(fl_jobs) : fl_result[r] = fl_jobs[k]
            /\ \A q, r \in 1..Len(fl_result) :
                  q < r => fl_result[q].id < fl_result[r].id)
    /\ [][fl_pc' = "done" => fl_jobs' = fl_jobs]_vars

\* salary, level, type and skill together leave two of six jobs, in order
C23_Witness ==
    /\ fl_pc = "done"
    /\ Len(fl_jobs) = 6
    /\ fl_criteria = Criteria(60000, {"Junior", "Senior"}, {"full-time"}, {"python"})
    /\ Len(fl_result) = 2
    /\ fl_result[1] = fl_jobs[2]
    /\ fl_result[2] = fl_jobs[5]

\* ------------------------------------------------------- client, continued
\* C24: in get_embedding the wait after the first failed attempt is 1 s and
\* each later wait is twice the one before (2^a seconds after attempt a),
\* one wait per failed attempt that is followed by another, and every
\* attempt passes the rate-limit gate before its provider call.
C24_BackoffAndGate ==
    (op = "get_embedding") =>
        /\ Len(sleeps) = attempt
        /\ \A k \in 1..Len(sleeps) :
              /\ sleeps[k].why = "backoff"
              /\ sleeps[k].ticks = IF k = 1 THEN TicksPerSecond
                                   ELSE 2 * sleeps[k - 1].ticks
        /\ pc = "ge_call" => (gates = attempt + 1 /\ Len(calls) = attempt)
        /\ pc = "ge_gate" => (gates = attempt /\ Len(calls) = attempt)
        /\ (pc = "done" /\ calls # <<>>) =>
              (gates = Len(calls) /\ attempt = Len(calls) - 1)

\* three attempts: waits of 1 s and 2 s, three passes of the gate, success
C24_Witness ==
    /\ EmbeddingDone
    /\ Len(calls) = 3
    /\ calls[3].ok
    /\ gates = 3
    /\ sleeps = << [why |-> "backoff", ticks |-> TicksPerSecond],
                   [why |-> "backoff", ticks |-> 2 * TicksPerSecond] >>

\* C25 as stated: get_embeddings_batch sleeps 1 s between every two
\* successive chunk submissions, whatever the outcome of the earlier one,
\* and not after the last chunk.
C25_DelayBetweenAllChunks ==
    (op = "get_embeddings_batch" /\ pc \in {"gb_gate", "done"}) =>
        /\ Len(sleeps) = Min(Len(calls), Max(total_batches - 1, 0))
        /\ \A k \in 1..Len(sleeps) :
              sleeps[k] = [why |-> "pacing", ticks |-> TicksPerSecond]

\* C26: no empty or whitespace-only text reaches the provider: get_embedding
\* makes no call for one, and get_embeddings_batch submits the placeholder
\* "empty text" in its place, at the same position of the chunk.
C26_NoBlankSubmitted ==
    /\ \A c \in 1..Len(calls) : \A k \in 1..Len(calls[c].input) :
          calls[c].input[k].ntok > 0
    /\ (op = "get_embedding" /\ arg_text.ntok = 0) => calls = <<>>
    /\ (op = "get_embeddings_batch") =>
          \A c \in 1..Len(calls) :
              /\ Len(calls[c].input) =
                    Min(c * batch_size, Len(texts)) - (c - 1) * batch_size
              /\ \A k \in 1..Len(calls[c].input) :
                    (texts[(c - 1) * batch_size + k].ntok = 0) <=>
                        (calls[c].input[k] = EMPTY_TEXT)

\* a whitespace-only text second in a chunk of two, submitted as placeholder
C26_Witness ==
    /\ BatchDone
    /\ batch_size = 2
    /\ Len(texts) >= 2
    /\ texts[1].ntok > 0
    /\ texts[2] = Text(0, 0, TRUE)
    /\ calls[1].ok
    /\ calls[1].input[2] = EMPTY_TEXT
    /\ result.vecs[2] = Vec(Embed(EMPTY_TEXT))

\* what the provider gets for text t: all of it, or its first MAX_TOKENS tokens
Submitted(t, sent) ==
    /\ sent.id = t.id
    /\ IF t.ntok > MAX_TOKENS
       THEN sent.ntok = MAX_TOKENS
       ELSE sent = t

\* C27: a text of more than 8000 tokens is submitted as its first 8000
\* tokens, by get_embedding and by get_embeddings_batch, and is not an
\* error; a text of at most 8000 tokens is submitted unchanged.
C27_Truncation ==
    /\ (op = "get_embedding") =>
          /\ \A c \in 1..Len(calls) : Submitted(arg_text, calls[c].input[1])
          /\ (pc = "done" /\ arg_text.ntok > 0 /\ max_retries > 0) => calls # <<>>
    /\ (op = "get_embeddings_batch") =>
          \A c \in 1..Len(calls) : \A k \in 1..Len(calls[c].input) :
              texts[(c - 1) * batch_size + k].ntok > 0 =>
                  Submitted(texts[(c - 1) * batch_size + k], calls[c].input[k])

\* one token too many: the first 8000 are embedded
C27_Witness ==
    /\ EmbeddingDone
    /\ arg_text.ntok = MAX_TOKENS + 1
    /\ Len(calls) = 1
    /\ calls[1].input[1].ntok = MAX_TOKENS
    /\ result = Returned(Embed(calls[1].input[1]))

\* a call of get_embedding or get_embeddings_batch is in progress
InProgress == pc \notin {"idle", "done"}

\* C28: every call of get_embedding and of get_embeddings_batch ends,
\* whatever the provider answers: it only waits for times that pass and for
\* provider calls that return or raise, never for another party.
C28_Terminates == InProgress ~> (pc = "done")

\* three chunks of one text: three calls, two pacing delays, then the end
C28_Witness ==
    /\ BatchDone
    /\ batch_size = 1
    /\ Len(texts) = 3
    /\ Len(calls) = 3
    /\ \A c \in 1..3 : calls[c].ok
    /\ Len(sleeps) = 2
    /\ gates = 3

\* ------------------------------------------------------ pipeline, continued
\* C29 as stated: once cancellation has been signalled, no further stage of
\* get_recommendations starts (a retry sequence under way may finish).
C29_NoStageAfterCancel == [][cancel_requested => trace' = trace]_vars

\* ------------------------------------------------------------- job scraper
ScrapeDone == sc_pc = "done"

\* the jobs the first k requests brought in, read off the requests themselves
RECURSIVE Collected(_)
Collected(k) ==
    IF k = 0 THEN <<>>
    ELSE LET f == sc_fetches[k]
         IN  Collected(k - 1) \o
                [pos \in 1..(f.results - f.skipped) |->
                    [page |-> f.page, index |-> f.skipped + pos]]

\* a request after which the loop goes on: a full page, read without error,
\* that leaves fewer than max_jobs jobs collected
GoesOn(k) ==
    /\ sc_fetches[k].outcome = "page"
    /\ sc_fetches[k].results >= results_per_page
    /\ sc_fetches[k].callback # "raises"
    /\ Len(Collected(k)) < sc_max_jobs

\* C30: scrape_jobs never raises and never returns more than max_jobs jobs;
\* every request but the last was a full page read without error that left
\* the collection short of max_jobs, the last one is where pagination stopped
\* (empty page, short page, max_jobs reached, or an error), and what is
\* returned is the first max_jobs of the jobs collected from the pages read,
\* a page whose request failed contributing none.
C30_ScrapeNeverRaises ==
    ScrapeDone =>
        /\ sc_result.kind = "ok"
        /\ Len(sc_result.jobs) <= sc_max_jobs
        /\ \A k \in 1..(Len(sc_fetches) - 1) : GoesOn(k)
        /\ sc_fetches # <<>> => ~GoesOn(Len(sc_fetches))
        /\ \A k \in 1..Len(sc_fetches) :
              /\ sc_fetches[k].page = k
              /\ sc_fetches[k].asked =
                    Min(results_per_page, sc_max_jobs - Len(Collected(k - 1)))
        /\ sc_result.jobs =
              SubSeq(Collected(Len(sc_fetches)), 1,
                     Min(sc_max_jobs, Len(Collected(Len(sc_fetches)))))
        /\ \A pos \in 1..Len(sc_result.jobs) :
              sc_fetches[sc_result.jobs[pos].page].outcome = "page"

\* the second page fails after a full first page: the first page's jobs are
\* returned
C30_Witness ==
    /\ ScrapeDone
    /\ Len(sc_fetches) = 2
    /\ sc_fetches[2].outcome = "error"
    /\ Len(sc_result.jobs) = results_per_page

====
